---- MODULE Spec2Model ----
(***************************************************************************)
(* Model of the ABIDE site-adaptation demo (src/abide_demo): the command   *)
(* line parser, the main script's pipeline, and the four module functions  *)
(* process_phenotypic_data, extract_functional_connectivity,               *)
(* create_splitter and create_trainer.                                     *)
(*                                                                         *)
(* Spec         one run of main.py from a command line                     *)
(* SpecPheno    direct calls of process_phenotypic_data                    *)
(* SpecFC       direct calls of extract_functional_connectivity            *)
(* SpecSplit    direct calls of create_splitter                            *)
(* SpecTrainer  direct calls of create_trainer                             *)
(***************************************************************************)
EXTENDS Integers, Sequences, FiniteSets, TLC

(***************************************************************************)
(* Bounds of the model.                                                    *)
(***************************************************************************)
\* optional flags given on one command line (all others take their default)
MaxGiven == 2
\* largest numeral given to an integer flag / integer argument
MaxCount == 2
\* arguments following a nargs="+" flag on a command line
MaxArgs == 1
\* length of the measure list in a direct call of the extractor
MaxMeasures == 3
\* regions of interest of a time series
MaxRois == 4
\* rows of a phenotypic table
MaxRows == 1
\* direct calls of one factory within one interpreter session
MaxCalls == 2

(***************************************************************************)
(* Python values.  None is the empty set and an optional integer v is {v}, *)
(* so that None and integers can be compared.                              *)
(***************************************************************************)
None == {}

Some(v) == {v}

\* value of a variable that has not been assigned yet
Unset == [unset |-> TRUE]

VARIABLES
    pc,              \* position of the script / of the direct call
    argv,            \* command line: flag -> the argument strings after it
    args,            \* argparse.Namespace returned by parse_args
    files,           \* files written to the output directory
    err,             \* exception that ended the run ("" if none)
    fetched,         \* fetch_abide_pcp has been called
    dataset,         \* result of fetch_abide_pcp / input of a direct call
    phenotypes,      \* result of process_phenotypic_data
    x,               \* result of extract_functional_connectivity
    cv,              \* result of create_splitter
    trainer,         \* result of create_trainer
    call,            \* arguments of the latest direct call of a function
    ncalls,          \* number of direct calls made
    splitterCalls,   \* the create_splitter calls made, with their results
    CLASSIFIER_GRID  \* module-level dict of modeling.py

vars == <<pc, argv, args, files, err, fetched, dataset, phenotypes, x, cv,
          trainer, call, ncalls, splitterCalls, CLASSIFIER_GRID>>

(***************************************************************************)
(* parsing.py: parse_args                                                  *)
(***************************************************************************)
RequiredFlags == {"input-dir", "output-dir"}

ChoiceFlags == {"atlas", "classifier", "search-strategy", "split"}

ListFlags == {"feature-extraction", "scoring"}

IntFlags == {"num-search-iterations", "num-solver-iterations", "num-folds",
             "num-cv-repeats", "num-jobs", "random-state", "verbose"}

\* dests declared with argparse.BooleanOptionalAction: --x and --no-x
BoolDests == {"band-pass-filtering", "global-signal-regression",
              "quality-checked", "mida"}

NoFlag(d) == "no-" \o d

BoolFlags == BoolDests \cup {NoFlag(d) : d \in BoolDests}

OptionalFlags == ChoiceFlags \cup ListFlags \cup IntFlags \cup BoolFlags

\* choices=[...] of add_argument
Choices(flag) ==
    CASE flag = "atlas" ->
            {"aal", "cc200", "cc400", "dosenbach160", "ez", "ho", "tt"}
      [] flag = "classifier" -> {"ridge", "svm", "logistic"}
      [] flag = "feature-extraction" ->
            {"covariance", "pearson", "partial", "tangent", "precision"}
      [] flag = "search-strategy" -> {"grid", "random"}
      [] flag = "scoring" ->
            {"accuracy", "precision", "recall", "f1", "roc_auc",
             "matthews_corrcoef"}
      [] flag = "split" -> {"skf", "lpgo"}

\* default=... of add_argument (string-valued flags)
DefaultChoice(flag) ==
    CASE flag = "atlas" -> "cc200"
      [] flag = "classifier" -> "logistic"
      [] flag = "search-strategy" -> "random"
      [] flag = "split" -> "skf"

DefaultList(flag) ==
    CASE flag = "feature-extraction" -> <<"pearson">>
      [] flag = "scoring" -> <<"accuracy">>

DefaultInt(flag) ==
    CASE flag = "num-search-iterations" -> 10
      [] flag = "num-solver-iterations" -> 100
      [] flag = "num-folds" -> 5
      [] flag = "num-cv-repeats" -> 1
      [] flag = "num-jobs" -> 1
      [] flag = "verbose" -> 0

DefaultBool(dest) == dest = "quality-checked"

\* decimal text of the digits, as Python's int() reads it
Digits == <<"0", "1", "2", "3", "4", "5", "6", "7", "8", "9">>

IntText(i) == IF i < 0 THEN "-" \o Digits[1 - i] ELSE Digits[i + 1]

IntRange == (-9) .. 9

\* type=int: int(s) raises ValueError unless s is an integer literal
IsIntLiteral(s) == \E i \in IntRange : IntText(i) = s

PyInt(s) == CHOOSE i \in IntRange : IntText(i) = s

\* a string that is neither one of any flag's choices nor an integer literal
Bogus == "bogus"

RECURSIVE SeqsUpTo(_, _)
\* the sequences over S of length 1..n
SeqsUpTo(S, n) ==
    IF n = 0 THEN {}
    ELSE {<<e>> : e \in S}
         \cup {Append(s, e) : s \in SeqsUpTo(S, n - 1), e \in S}

\* the choices written on the modelled command lines: every choice of the
\* flags the factories branch on, two of the choices of the other flags
GivenChoices(flag) ==
    CASE flag = "atlas" -> {"aal", "cc400"}
      [] flag = "feature-extraction" -> {"tangent", "pearson"}
      [] flag = "scoring" -> {"f1", "accuracy"}
      [] OTHER -> Choices(flag)

\* the argument strings that may follow a flag on a modelled command line
Tokens(flag) ==
    IF flag \in RequiredFlags THEN {<<"dir">>}
    ELSE IF flag \in ChoiceFlags THEN
        {<<c>> : c \in GivenChoices(flag) \cup {Bogus}}
    ELSE IF flag \in ListFlags THEN
        SeqsUpTo(GivenChoices(flag) \cup {Bogus}, MaxArgs)
    ELSE IF flag \in IntFlags THEN
        {<<IntText(i)>> : i \in (-1) .. MaxCount} \cup {<<Bogus>>}
    ELSE {<< >>}

RECURSIVE SubsetsUpTo(_, _)
\* the subsets of S with at most k elements
SubsetsUpTo(S, k) ==
    IF k = 0 THEN {{}}
    ELSE LET smaller == SubsetsUpTo(S, k - 1)
         IN  smaller \cup {T \cup {e} : T \in smaller, e \in S}

EmptyFn == [f \in {} |-> << >>]

RECURSIVE CommandLinesOver(_)
\* every assignment of argument strings to the flags of F
CommandLinesOver(F) ==
    IF F = {} THEN {EmptyFn}
    ELSE LET f == CHOOSE f \in F : TRUE
         IN  {(f :> t) @@ rest :
                 t \in Tokens(f), rest \in CommandLinesOver(F \ {f})}

\* the sets of flags given on a modelled command line: any of the required
\* flags, and at most MaxGiven optional flags, a boolean dest in one of its
\* two forms only
FlagSets ==
    {R \cup O :
        R \in SUBSET RequiredFlags,
        O \in {T \in SubsetsUpTo(OptionalFlags, MaxGiven) :
                 \A d \in BoolDests : ~({d, NoFlag(d)} \subseteq T)}}

\* ArgparseError with the choices of the nargs="+" flags left unchecked
ArgparseErrorListsUnchecked(av) ==
    \/ \E f \in RequiredFlags : f \notin DOMAIN av
    \/ \E f \in DOMAIN av \cap ChoiceFlags : av[f][1] \notin Choices(f)
    \/ \E f \in DOMAIN av \cap IntFlags : ~IsIntLiteral(av[f][1])

\* ArgparseError with the choices of the single-valued flags left unchecked
ArgparseErrorChoicesUnchecked(av) ==
    \/ \E f \in RequiredFlags : f \notin DOMAIN av
    \/ \E f \in DOMAIN av \cap ListFlags :
          \E i \in 1 .. Len(av[f]) : av[f][i] \notin Choices(f)
    \/ \E f \in DOMAIN av \cap IntFlags : ~IsIntLiteral(av[f][1])

\* parser.error(): a required flag is missing, an argument is not one of
\* the flag's choices, or type=int rejects the argument
ArgparseError(av) ==
    \/ \E f \in RequiredFlags : f \notin DOMAIN av
    \/ \E f \in DOMAIN av \cap (ChoiceFlags \cup ListFlags) :
          \E i \in 1 .. Len(av[f]) : av[f][i] \notin Choices(f)
    \/ \E f \in DOMAIN av \cap IntFlags : ~IsIntLiteral(av[f][1])

ChoiceArg(av, f) == IF f \in DOMAIN av THEN av[f][1] ELSE DefaultChoice(f)

ListArg(av, f) == IF f \in DOMAIN av THEN av[f] ELSE DefaultList(f)

IntArg(av, f) == IF f \in DOMAIN av THEN PyInt(av[f][1]) ELSE DefaultInt(f)

\* --random-state: type=int, default=None
OptIntArg(av, f) == IF f \in DOMAIN av THEN Some(PyInt(av[f][1])) ELSE None

BoolArg(av, d) ==
    IF d \in DOMAIN av THEN TRUE
    ELSE IF NoFlag(d) \in DOMAIN av THEN FALSE
    ELSE DefaultBool(d)

\* the Namespace parse_args returns when argparse raises no error
Namespace(av) ==
    [input_dir |-> av["input-dir"][1],
     output_dir |-> av["output-dir"][1],
     atlas |-> ChoiceArg(av, "atlas"),
     band_pass_filtering |-> BoolArg(av, "band-pass-filtering"),
     global_signal_regression |-> BoolArg(av, "global-signal-regression"),
     quality_checked |-> BoolArg(av, "quality-checked"),
     classifier |-> ChoiceArg(av, "classifier"),
     mida |-> BoolArg(av, "mida"),
     feature_extraction |-> ListArg(av, "feature-extraction"),
     search_strategy |-> ChoiceArg(av, "search-strategy"),
     num_search_iterations |-> IntArg(av, "num-search-iterations"),
     num_solver_iterations |-> IntArg(av, "num-solver-iterations"),
     scoring |-> ListArg(av, "scoring"),
     split |-> ChoiceArg(av, "split"),
     num_folds |-> IntArg(av, "num-folds"),
     num_cv_repeats |-> IntArg(av, "num-cv-repeats"),
     num_jobs |-> IntArg(av, "num-jobs"),
     random_state |-> OptIntArg(av, "random-state"),
     verbose |-> IntArg(av, "verbose")]

\* parse_args(): the Namespace, or argparse's exit with status 2
parse_args(av) ==
    IF ArgparseError(av) THEN [error |-> "SystemExit", namespace |-> Unset]
    ELSE [error |-> "", namespace |-> Namespace(av)]

(***************************************************************************)
(* feature_extraction.py: process_phenotypic_data                          *)
(*                                                                         *)
(* A table is a sequence of rows and a row a function from column names to *)
(* cells.  A numeric cell is a record that is either NaN or a number; a    *)
(* cell of a string column is a string, NaNStr standing for a missing one. *)
(***************************************************************************)
NaN == [nan |-> TRUE, v |-> 0]

Num(n) == [nan |-> FALSE, v |-> n]

NaNStr == "nan"

\* the missing-value marker of the ABIDE phenotypic file
Missing == -9999

SELECTED_PHENOTYPES ==
    <<"SUB_ID", "SITE_ID", "SEX", "AGE_AT_SCAN", "FIQ",
      "HANDEDNESS_CATEGORY", "EYE_STATUS_AT_SCAN", "DX_GROUP">>

\* the raw table has columns the processor does not select
RawColumns == {SELECTED_PHENOTYPES[i] : i \in 1 .. Len(SELECTED_PHENOTYPES)}
              \cup {"FILE_ID"}

\* HANDEDNESS_MAPPING without the np.nan key
HandednessMappingNoNanKey ==
    [c \in {"L", "R", "Mixed", "Ambi", "L->R", "R->L", "-9999"} |->
        CASE c = "L" -> "LEFT"
          [] c = "R" -> "RIGHT"
          [] c = "-9999" -> "LEFT"
          [] OTHER -> "AMBIDEXTROUS"]

\* HANDEDNESS_MAPPING with a switch of hand mapped to the hand switched to
HandednessMappingSwitchTarget ==
    [c \in {"L", "R", "Mixed", "Ambi", "L->R", "R->L", "-9999", NaNStr} |->
        CASE c \in {"L", "R->L", "-9999", NaNStr} -> "LEFT"
          [] c \in {"R", "L->R"} -> "RIGHT"
          [] OTHER -> "AMBIDEXTROUS"]

HANDEDNESS_MAPPING ==
    [c \in {"L", "R", "Mixed", "Ambi", "L->R", "R->L", "-9999", NaNStr} |->
        CASE c = "L" -> "LEFT"
          [] c = "R" -> "RIGHT"
          [] c = "Mixed" -> "AMBIDEXTROUS"
          [] c = "Ambi" -> "AMBIDEXTROUS"
          [] c = "L->R" -> "AMBIDEXTROUS"
          [] c = "R->L" -> "AMBIDEXTROUS"
          [] c = "-9999" -> "LEFT"
          [] c = NaNStr -> "LEFT"]

MAPPING ==
    [key \in {"SEX", "HANDEDNESS_CATEGORY", "EYE_STATUS_AT_SCAN",
              "DX_GROUP"} |->
        CASE key = "SEX" ->
                [c \in {1, 2} |-> IF c = 1 THEN "MALE" ELSE "FEMALE"]
          [] key = "HANDEDNESS_CATEGORY" -> HANDEDNESS_MAPPING
          [] key = "EYE_STATUS_AT_SCAN" ->
                [c \in {1, 2} |-> IF c = 1 THEN "OPEN" ELSE "CLOSED"]
          [] key = "DX_GROUP" ->
                [c \in {1, 2} |-> IF c = 1 THEN "CONTROL" ELSE "ASD"]]

\* fiq != -9999, elementwise: a NaN differs from every number
NotEqual(cell, n) == cell.nan \/ cell.v # n

\* np.isnan, elementwise
IsNan(cell) == cell.nan

\* Series.where(cond, other): the cell where cond holds, other elsewhere
Where(cell, cond, other) == IF cond THEN cell ELSE other

\* ImputeFIQ without the np.isnan test
ImputeFIQMarkerOnly(data) ==
    [i \in DOMAIN data |->
        [data[i] EXCEPT !["FIQ"] = Where(@, NotEqual(@, Missing), Num(100))]]

\* data["FIQ"] = fiq.where((fiq != -9999) & (~np.isnan(fiq)), 100)
ImputeFIQ(data) ==
    [i \in DOMAIN data |->
        [data[i] EXCEPT !["FIQ"] =
            Where(@, NotEqual(@, Missing) /\ ~IsNan(@), Num(100))]]

\* Series.map(dict): the dict's value for a cell that is one of its keys
\* (a missing cell matches a NaN key), NaN for any other cell
SeriesMap(cell, dict) == IF cell \in DOMAIN dict THEN dict[cell] ELSE NaNStr

\* for key in MAPPING: data[key] = data[key].copy().map(MAPPING[key])...
EncodeCategories(data) ==
    [i \in DOMAIN data |->
        [c \in DOMAIN data[i] |->
            IF c \in DOMAIN MAPPING THEN SeriesMap(data[i][c], MAPPING[c])
            ELSE data[i][c]]]

\* data[SELECTED_PHENOTYPES].set_index("SUB_ID"): the SUB_ID cell is the
\* row's key, the other selected columns are the row's cells
SelectPhenotypes(data) ==
    [i \in DOMAIN data |->
        [c \in {SELECTED_PHENOTYPES[j] : j \in 1 .. Len(SELECTED_PHENOTYPES)}
            |-> data[i][c]]]

\* process_phenotypic_data(data): the table returned, and the caller's
\* table as the call leaves it (the function works on data.copy())
process_phenotypic_data(data) ==
    LET local == EncodeCategories(ImputeFIQ(data))
    IN  [caller |-> data, result |-> SelectPhenotypes(local)]

(***************************************************************************)
(* feature_extraction.py: extract_functional_connectivity                  *)
(*                                                                         *)
(* The data of one subject is described by its shape: a time series of     *)
(* rois columns, a rois x rois matrix, or a vector of length features.     *)
(***************************************************************************)
AVAILABLE_FC_MEASURES ==
    [m \in {"pearson", "partial", "tangent", "covariance", "precision"} |->
        CASE m = "pearson" -> "correlation"
          [] m = "partial" -> "partial correlation"
          [] m = "tangent" -> "tangent"
          [] m = "covariance" -> "covariance"
          [] m = "precision" -> "precision"]

\* dict.get(k): the value of key k, None when k is not a key
DictGet(dict, k) == IF k \in DOMAIN dict THEN Some(dict[k]) ELSE None

\* LookupMeasure with a default kind: AVAILABLE_FC_MEASURES.get(k, "correlation")
LookupMeasureDefault(name) ==
    IF name \in DOMAIN AVAILABLE_FC_MEASURES
    THEN Some(AVAILABLE_FC_MEASURES[name]) ELSE Some("correlation")

\* k = AVAILABLE_FC_MEASURES.get(k)
LookupMeasure(name) == DictGet(AVAILABLE_FC_MEASURES, name)

TimeSeries(n) == [shape |-> "series", rois |-> n, features |-> 0]

Matrix(n) == [shape |-> "matrix", rois |-> n, features |-> 0]

Vector(n, len) == [shape |-> "vector", rois |-> n, features |-> len]

\* ConnectivityMeasure(kind=kind, vectorize=v, discard_diagonal=d): the
\* constructor stores its arguments and validates nothing
ConnectivityMeasure(kind, v, d) ==
    [kind |-> kind, vectorize |-> v, discard_diagonal |-> d]

\* ConnectivityMeasure.fit_transform: every subject must be a 2-D array and
\* the kind one of the estimator's kinds, else ValueError; a subject of
\* rois columns gives a rois x rois matrix, flattened to its lower triangle
\* when vectorize is set, without the diagonal when discard_diagonal is set
FitTransform(measure, data) ==
    IF data.shape = "vector" \/ measure.kind = None THEN
        [error |-> "ValueError", data |-> data]
    ELSE LET n == data.rois
             len == IF measure.discard_diagonal THEN (n * (n - 1)) \div 2
                    ELSE (n * (n + 1)) \div 2
         IN  [error |-> "",
              data |-> IF measure.vectorize THEN Vector(n, len)
                       ELSE Matrix(n)]

\* IsFinal taking the first iteration for the final one
IsFinalFirst(i, measures) == i = 1

\* final = i == len(measures)
IsFinal(i, measures) == i = Len(measures)

\* Reversed without the reversal: enumerate(measures, 1)
ReversedForward(measures) == measures

\* reversed(measures): the i-th element counted from the end
Reversed(measures) ==
    [i \in 1 .. Len(measures) |-> measures[Len(measures) + 1 - i]]

RECURSIVE ExtractLoop(_, _, _, _)
\* for i, k in enumerate(reversed(measures), 1): ... from iteration i on;
\* stages records every estimator constructed, with its input and output
ExtractLoop(measures, i, data, stages) ==
    IF i > Len(measures) THEN [error |-> "", data |-> data, stages |-> stages]
    ELSE LET name == Reversed(measures)[i]
             final == IsFinal(i, measures)
             measure == ConnectivityMeasure(LookupMeasure(name), final, final)
             out == FitTransform(measure, data)
             stage == [name |-> name, measure |-> measure, input |-> data,
                       output |-> out.data, error |-> out.error]
         IN  IF out.error # "" THEN
                 [error |-> out.error, data |-> data,
                  stages |-> Append(stages, stage)]
             ELSE ExtractLoop(measures, i + 1, out.data,
                              Append(stages, stage))

\* extract_functional_connectivity(data, measures)
extract_functional_connectivity(data, measures) ==
    ExtractLoop(measures, 1, data, << >>)

(***************************************************************************)
(* evaluation.py: create_splitter                                          *)
(***************************************************************************)
\* the parameters of create_splitter
SplitterParams == {"split", "num_folds", "num_cv_repeats", "random_state",
                   "verbose"}

\* the keys of the constraint dict handed to validate_params
SplitterConstraints == {"split", "n_splits", "n_repeats", "random_state",
                        "verbose"}

\* validate_params checks a parameter only when the constraint dict has a
\* key of the parameter's name; a parameter without one is skipped
Validated(param, params, constraints) == param \in params \cap constraints

\* StrOptions({"skf", "lpgo"}) on split; the Interval(Integral, 1, None)
\* constraints are keyed n_splits and n_repeats.  Every modelled
\* random_state and verbose satisfies its constraint.
SplitterParamsInvalid(a) ==
    \/ /\ Validated("split", SplitterParams, SplitterConstraints)
       /\ a.split \notin {"skf", "lpgo"}
    \/ /\ Validated("n_splits", SplitterParams, SplitterConstraints)
       /\ a.num_folds < 1
    \/ /\ Validated("n_repeats", SplitterParams, SplitterConstraints)
       /\ a.num_cv_repeats < 1

\* LeavePGroupsOut(n_groups): the constructor stores n_groups
LeavePGroupsOut(n_groups) ==
    [error |-> "", splitter |-> [type |-> "LeavePGroupsOut",
                                 n_groups |-> n_groups]]

\* RepeatedStratifiedKFold(n_splits=, n_repeats=, random_state=): the
\* constructor raises ValueError unless n_repeats > 0 and stores the rest
RepeatedStratifiedKFold(n_splits, n_repeats, random_state) ==
    IF n_repeats <= 0 THEN [error |-> "ValueError", splitter |-> Unset]
    ELSE [error |-> "",
          splitter |-> [type |-> "RepeatedStratifiedKFold",
                        n_splits |-> n_splits, n_repeats |-> n_repeats,
                        random_state |-> random_state]]

\* create_splitter handing the seed to the leave-p-groups-out splitter too
create_splitterSeeded(a) ==
    IF SplitterParamsInvalid(a) THEN
        [error |-> "InvalidParameterError", splitter |-> Unset]
    ELSE IF a.split = "lpgo" THEN
        [error |-> "",
         splitter |-> [type |-> "LeavePGroupsOut", n_groups |-> a.num_folds,
                       random_state |-> a.random_state]]
    ELSE RepeatedStratifiedKFold(a.num_folds, a.num_cv_repeats,
                                 a.random_state)

\* create_splitter(split, num_folds, num_cv_repeats, random_state, verbose)
create_splitter(a) ==
    IF SplitterParamsInvalid(a) THEN
        [error |-> "InvalidParameterError", splitter |-> Unset]
    ELSE IF a.split = "lpgo" THEN LeavePGroupsOut(a.num_folds)
    ELSE RepeatedStratifiedKFold(a.num_folds, a.num_cv_repeats,
                                 a.random_state)

\* LeavePGroupsOut.split(X, y, groups): one test set for every choice of
\* n_groups of the distinct group labels
LeavePGroupsOutSplits(splitter, groups) ==
    {test \in SUBSET groups : Cardinality(test) = splitter.n_groups}

(***************************************************************************)
(* modeling.py: create_trainer                                             *)
(*                                                                         *)
(* A hyperparameter value 2^e is represented by its exponent e.            *)
(***************************************************************************)
\* C = np.logspace(start=-5, stop=15, num=20 + 1, base=2)
C == [i \in 1 .. 21 |-> i - 6]

\* 1 / (2 * C), elementwise
HalfInverse(values) == [i \in DOMAIN values |-> -(values[i] + 1)]

CLASSIFIER ==
    [c \in {"logistic", "svm", "ridge"} |->
        CASE c = "logistic" -> "LogisticRegression"
          [] c = "svm" -> "LinearSVC"
          [] c = "ridge" -> "RidgeClassifier"]

\* the value of CLASSIFIER_GRID when modeling.py has been imported
ClassifierGridAtImport ==
    [c \in {"logistic", "svm", "ridge"} |->
        IF c = "ridge" THEN ("alpha" :> HalfInverse(C)) ELSE ("C" :> C)]

MidaParams ==
    [k \in {"num_components", "kernel", "mu", "eta", "ignore_y", "augment"}
        |-> CASE k = "num_components" ->
                    <<Some(32), Some(64), Some(128), Some(256), None>>
              [] k = "kernel" -> <<"linear", "rbf">>
              [] k = "mu" -> HalfInverse(C)
              [] k = "eta" -> HalfInverse(C)
              [] k = "ignore_y" -> <<TRUE, FALSE>>
              [] k = "augment" -> <<TRUE, FALSE>>]

DomainAdapterPrefix == "domain_adapter__"

\* MIDA_GRID = {f"domain_adapter__{key}": value for key, value in ...}
MIDA_GRID ==
    [k \in {DomainAdapterPrefix \o key : key \in DOMAIN MidaParams} |->
        MidaParams[CHOOSE key \in DOMAIN MidaParams :
                       k = DomainAdapterPrefix \o key]]

\* dict.update(other)
DictUpdate(dict, other) ==
    [k \in DOMAIN dict \cup DOMAIN other |->
        IF k \in DOMAIN other THEN other[k] ELSE dict[k]]

\* the scoring argument: None, one scorer name, or a list of names
ScoringNone == [kind |-> "none", names |-> << >>]

ScoringStr(name) == [kind |-> "str", names |-> <<name>>]

ScoringList(names) == [kind |-> "list", names |-> names]

\* a subset of sklearn.metrics.get_scorer_names()
ScorerNames == {"accuracy", "precision", "recall", "f1", "roc_auc",
                "matthews_corrcoef"}

\* the constraints of validate_params, all keyed by the parameters' names
TrainerParamsInvalid(a) ==
    \/ a.classifier \notin {"logistic", "svm", "ridge"}
    \/ a.search_strategy \notin {"grid", "random"}
    \/ a.scoring.kind = "str" /\ a.scoring.names[1] \notin ScorerNames
    \/ a.num_solver_iterations < 1
    \/ a.num_search_iterations < 1

\* clf = clone(CLASSIFIER[classifier]); clf.set_params(max_iter=, random_state=)
Estimator(a) ==
    [type |-> CLASSIFIER[a.classifier], max_iter |-> a.num_solver_iterations,
     random_state |-> a.random_state]

\* param_grid = clone(CLASSIFIER_GRID[classifier], safe=False), updated
\* with MIDA_GRID if mida
ParamGrid(a, grid) ==
    IF a.mida THEN DictUpdate(grid[a.classifier], MIDA_GRID)
    ELSE grid[a.classifier]

\* GridAfterCall when param_grid is the module's dict itself, not a clone
GridAfterCallAliased(a, grid) ==
    [grid EXCEPT ![a.classifier] = ParamGrid(a, grid)]

\* CLASSIFIER_GRID after the call: param_grid is a clone, so the update
\* does not reach the module's dict
GridAfterCall(a, grid) == grid

\* Refit when the list's last entry, scoring[-1], is the one designated
RefitLastEntry(scoring) ==
    IF scoring.kind = "list"
    THEN ScoringStr(scoring.names[Len(scoring.names)]) ELSE scoring

\* "refit": scoring[0] if isinstance(scoring, list) else scoring
Refit(scoring) ==
    IF scoring.kind = "list" THEN ScoringStr(scoring.names[1]) ELSE scoring

\* error_score when a failed evaluation is scored as NaN and the search goes on
ErrorScoreNaN == "nan"

\* the error_score entry of trainer_args
ErrorScore == "raise"

\* the trainer returned by a call whose parameters are valid and whose
\* scoring is not an empty list
Trainer(a, grid) ==
    LET common == [estimator |-> Estimator(a),
                   param_grid |-> ParamGrid(a, grid),
                   cv |-> a.cv, scoring |-> a.scoring,
                   refit |-> Refit(a.scoring), n_jobs |-> a.num_jobs,
                   error_score |-> ErrorScore, verbose |-> a.verbose,
                   fitted |-> FALSE, scored_failure |-> FALSE]
    IN  IF a.mida THEN
            [type |-> "MIDATrainer", args |-> common,
             search_strategy |-> a.search_strategy,
             num_iter |-> a.num_search_iterations,
             random_state |-> a.random_state]
        ELSE IF a.search_strategy = "grid" THEN
            [type |-> "GridSearchCV", args |-> common]
        ELSE
            [type |-> "RandomizedSearchCV", args |-> common,
             n_iter |-> a.num_search_iterations,
             random_state |-> a.random_state]

\* create_trainer(classifier, mida, search_strategy, cv, scoring, ...) with
\* the module's CLASSIFIER_GRID being grid: the trainer, or the exception,
\* and CLASSIFIER_GRID as the call leaves it
create_trainer(a, grid) ==
    IF TrainerParamsInvalid(a) THEN
        [error |-> "InvalidParameterError", trainer |-> Unset, grid |-> grid]
    ELSE IF a.scoring.kind = "list" /\ Len(a.scoring.names) = 0 THEN
        [error |-> "IndexError", trainer |-> Unset,
         grid |-> GridAfterCall(a, grid)]
    ELSE [error |-> "", trainer |-> Trainer(a, grid),
          grid |-> GridAfterCall(a, grid)]

(***************************************************************************)
(* main.py: one run of the script                                          *)
(***************************************************************************)
\* a row of the raw phenotypic table of subject i
Row(i, sex, fiq, hand, eye, dx) ==
    [c \in RawColumns |->
        CASE c = "SUB_ID" -> i
          [] c = "SITE_ID" -> IF i % 2 = 1 THEN "NYU" ELSE "KKI"
          [] c = "SEX" -> sex
          [] c = "AGE_AT_SCAN" -> Num(10 + i)
          [] c = "FIQ" -> fiq
          [] c = "HANDEDNESS_CATEGORY" -> hand
          [] c = "EYE_STATUS_AT_SCAN" -> eye
          [] c = "DX_GROUP" -> dx
          [] c = "FILE_ID" -> "file"]

\* the datasets a modelled fetch returns: one subject of either diagnosis
\* with the IQ and the handedness missing, and MaxRois regions
FetchedDatasets ==
    {[phenotypic |-> <<Row(1, 1, Num(Missing), NaNStr, 1, dx)>>,
      rois |-> TimeSeries(MaxRois)] : dx \in {1, 2}}

\* sklearn.utils.check_random_state(seed): a RandomState made from the seed
check_random_state(seed) == [type |-> "RandomState", seed |-> seed]

\* StratifiedKFold rejects n_splits < 2 and LeavePGroupsOut cannot leave
\* out fewer than one group: with such a splitter fit raises at the split
SplitterUsable(splitter) ==
    IF splitter.type = "LeavePGroupsOut" THEN splitter.n_groups >= 1
    ELSE splitter.n_splits >= 2

Init ==
    /\ pc = "parse"
    /\ \E F \in FlagSets : argv \in CommandLinesOver(F)
    /\ args = Unset
    /\ files = {}
    /\ err = ""
    /\ fetched = FALSE
    /\ dataset = Unset
    /\ phenotypes = Unset
    /\ x = Unset
    /\ cv = Unset
    /\ trainer = Unset
    /\ call = Unset
    /\ ncalls = 0
    /\ splitterCalls = {}
    /\ CLASSIFIER_GRID = ClassifierGridAtImport

\* an uncaught exception ends the script
Raise(e) == pc' = "exit" /\ err' = e

\* args = parse_args()
ParseArgs ==
    /\ pc = "parse"
    /\ LET r == parse_args(argv)
       IN  IF r.error # "" THEN Raise(r.error) /\ UNCHANGED args
           ELSE pc' = "write_args" /\ args' = r.namespace /\ UNCHANGED err
    /\ UNCHANGED <<argv, files, fetched, dataset, phenotypes, x, cv, trainer,
                   call, ncalls, splitterCalls, CLASSIFIER_GRID>>

\* os.makedirs(args.output_dir); yaml.dump(args_dict, f)
WriteArgs ==
    /\ pc = "write_args"
    /\ files' = files \cup {"args.yaml"}
    /\ pc' = "fetch"
    /\ UNCHANGED <<argv, args, err, fetched, dataset, phenotypes, x, cv,
                   trainer, call, ncalls, splitterCalls, CLASSIFIER_GRID>>

\* dataset = fetch_abide_pcp(...)
Fetch ==
    /\ pc = "fetch"
    /\ fetched' = TRUE
    /\ dataset' \in FetchedDatasets
    /\ pc' = "phenotypes"
    /\ UNCHANGED <<argv, args, files, err, phenotypes, x, cv, trainer, call,
                   ncalls, splitterCalls, CLASSIFIER_GRID>>

\* phenotypes = process_phenotypic_data(dataset.phenotypic, args.verbose)
\* phenotypes.to_csv(...)
ProcessPhenotypes ==
    /\ pc = "phenotypes"
    /\ LET r == process_phenotypic_data(dataset.phenotypic)
       IN  /\ phenotypes' = r.result
           /\ dataset' = [dataset EXCEPT !.phenotypic = r.caller]
    /\ files' = files \cup {"phenotypes.csv"}
    /\ pc' = "extract"
    /\ UNCHANGED <<argv, args, err, fetched, x, cv, trainer, call, ncalls,
                   splitterCalls, CLASSIFIER_GRID>>

\* x = extract_functional_connectivity(dataset.get(atlas),
\*                                     args.feature_extraction, args.verbose)
Extract ==
    /\ pc = "extract"
    /\ LET r == extract_functional_connectivity(dataset.rois,
                                                args.feature_extraction)
       IN  /\ x' = r
           /\ IF r.error # "" THEN Raise(r.error)
              ELSE pc' = "save_inputs" /\ UNCHANGED err
    /\ UNCHANGED <<argv, args, files, fetched, dataset, phenotypes, cv,
                   trainer, call, ncalls, splitterCalls, CLASSIFIER_GRID>>

\* y, groups, factors, fit_args; np.savez_compressed(..."inputs.npz"...)
SaveInputs ==
    /\ pc = "save_inputs"
    /\ files' = files \cup {"inputs.npz"}
    /\ pc' = "create_splitter"
    /\ UNCHANGED <<argv, args, err, fetched, dataset, phenotypes, x, cv,
                   trainer, call, ncalls, splitterCalls, CLASSIFIER_GRID>>

\* random_state = check_random_state(args.random_state)
\* cv = create_splitter(split=args.split, ...)
CreateSplitter ==
    /\ pc = "create_splitter"
    /\ LET r == create_splitter(
                   [split |-> args.split, num_folds |-> args.num_folds,
                    num_cv_repeats |-> args.num_cv_repeats,
                    random_state |-> check_random_state(args.random_state),
                    verbose |-> args.verbose])
       IN  IF r.error # "" THEN Raise(r.error) /\ UNCHANGED cv
           ELSE pc' = "create_trainer" /\ cv' = r.splitter /\ UNCHANGED err
    /\ UNCHANGED <<argv, args, files, fetched, dataset, phenotypes, x,
                   trainer, call, ncalls, splitterCalls, CLASSIFIER_GRID>>

\* trainer = create_trainer(classifier=args.classifier, ...)
CreateTrainer ==
    /\ pc = "create_trainer"
    /\ LET r == create_trainer(
                   [classifier |-> args.classifier, mida |-> args.mida,
                    search_strategy |-> args.search_strategy, cv |-> cv,
                    scoring |-> ScoringList(args.scoring),
                    num_solver_iterations |-> args.num_solver_iterations,
                    num_search_iterations |-> args.num_search_iterations,
                    num_jobs |-> args.num_jobs,
                    random_state |-> check_random_state(args.random_state),
                    verbose |-> args.verbose],
                   CLASSIFIER_GRID)
       IN  /\ CLASSIFIER_GRID' = r.grid
           /\ IF r.error # "" THEN Raise(r.error) /\ UNCHANGED trainer
              ELSE pc' = "fit" /\ trainer' = r.trainer /\ UNCHANGED err
    /\ UNCHANGED <<argv, args, files, fetched, dataset, phenotypes, x, cv,
                   call, ncalls, splitterCalls>>

\* trainer.fit(**fit_args): the evaluation of a candidate may raise; the
\* search re-raises it when error_score is "raise"; otherwise it records
\* error_score as the candidate's score in cv_results_ and goes on
Fit ==
    /\ pc = "fit"
    /\ \E candidateFails \in BOOLEAN :
          IF \/ ~SplitterUsable(trainer.args.cv)
             \/ candidateFails /\ trainer.args.error_score = "raise"
          THEN Raise("FitError") /\ UNCHANGED trainer
          ELSE /\ pc' = "write_results"
               /\ trainer' = [trainer EXCEPT
                                 !.args.fitted = TRUE,
                                 !.args.scored_failure = candidateFails]
               /\ UNCHANGED err
    /\ UNCHANGED <<argv, args, files, fetched, dataset, phenotypes, x, cv,
                   call, ncalls, splitterCalls, CLASSIFIER_GRID>>

\* pd.DataFrame(trainer.cv_results_).to_csv(..."cv_results.csv"...)
WriteResults ==
    /\ pc = "write_results"
    /\ files' = files \cup {"cv_results.csv"}
    /\ pc' = "dump_model"
    /\ UNCHANGED <<argv, args, err, fetched, dataset, phenotypes, x, cv,
                   trainer, call, ncalls, splitterCalls, CLASSIFIER_GRID>>

\* joblib.dump(trainer, ..."model.joblib"...)
DumpModel ==
    /\ pc = "dump_model"
    /\ files' = files \cup {"model.joblib"}
    /\ pc' = "done"
    /\ UNCHANGED <<argv, args, err, fetched, dataset, phenotypes, x, cv,
                   trainer, call, ncalls, splitterCalls, CLASSIFIER_GRID>>

Next ==
    \/ ParseArgs
    \/ WriteArgs
    \/ Fetch
    \/ ProcessPhenotypes
    \/ Extract
    \/ SaveInputs
    \/ CreateSplitter
    \/ CreateTrainer
    \/ Fit
    \/ WriteResults
    \/ DumpModel

Spec == Init /\ [][Next]_vars

(***************************************************************************)
(* Direct calls of the module functions, with any argument their           *)
(* validate_params decorators let through or reject.                       *)
(***************************************************************************)
\* the state of an interpreter that has imported the modules
InitSession ==
    /\ argv = EmptyFn
    /\ args = Unset
    /\ files = {}
    /\ err = ""
    /\ fetched = FALSE
    /\ phenotypes = Unset
    /\ x = Unset
    /\ cv = Unset
    /\ trainer = Unset
    /\ ncalls = 0
    /\ splitterCalls = {}
    /\ CLASSIFIER_GRID = ClassifierGridAtImport

\* the raw cells of the integer-coded columns, of FIQ and of the handedness
CodeCells == {1, 2, Missing}

FIQCells == {Num(Missing), NaN, Num(85), Num(100)}

HandCells ==
    {"L", "R", "Mixed", "Ambi", "L->R", "R->L", "-9999", NaNStr, Bogus}

\* the code that follows c in the cycle 1, 2, -9999
NextCode(c) == IF c = 1 THEN 2 ELSE IF c = 2 THEN Missing ELSE 1

\* the raw rows of subject i: any sex, IQ, handedness and diagnosis, the eye
\* status being the code that follows the sex code
RawRows(i) ==
    {Row(i, sex, fiq, hand, NextCode(sex), dx) :
        sex \in CodeCells, fiq \in FIQCells, hand \in HandCells,
        dx \in CodeCells}

RECURSIVE TablesOfLength(_)
TablesOfLength(n) ==
    IF n = 0 THEN {<< >>}
    ELSE {Append(t, r) : t \in TablesOfLength(n - 1), r \in RawRows(n)}

\* call.data keeps the table as it was passed; dataset.phenotypic is the
\* caller's table object, which the callee could write to
InitPheno ==
    /\ InitSession
    /\ pc = "call"
    /\ \E n \in 0 .. MaxRows : \E t \in TablesOfLength(n) :
          /\ call = [data |-> t]
          /\ dataset = [phenotypic |-> t, rois |-> TimeSeries(1)]

\* phenotypes = process_phenotypic_data(dataset.phenotypic)
CallProcessPhenotypicData ==
    /\ pc = "call"
    /\ LET r == process_phenotypic_data(dataset.phenotypic)
       IN  /\ phenotypes' = r.result
           /\ dataset' = [dataset EXCEPT !.phenotypic = r.caller]
    /\ pc' = "returned"
    /\ ncalls' = ncalls + 1
    /\ UNCHANGED <<argv, args, files, err, fetched, x, cv, trainer, call,
                   splitterCalls, CLASSIFIER_GRID>>

NextPheno == CallProcessPhenotypicData

SpecPheno == InitPheno /\ [][NextPheno]_vars

\* the measure lists of a direct call: any list of at most MaxMeasures
\* names, the known ones and one that is not in the table
MeasureLists ==
    {<< >>}
    \cup SeqsUpTo({"pearson", "partial", "tangent", "covariance",
                   "precision", Bogus}, MaxMeasures)

InitFC ==
    /\ InitSession
    /\ pc = "call"
    /\ \E n \in 1 .. MaxRois :
          dataset = [phenotypic |-> << >>, rois |-> TimeSeries(n)]
    /\ \E m \in MeasureLists : call = [measures |-> m]

\* x = extract_functional_connectivity(dataset.rois, call.measures)
CallExtractFunctionalConnectivity ==
    /\ pc = "call"
    /\ LET r == extract_functional_connectivity(dataset.rois, call.measures)
       IN  x' = r /\ err' = r.error
    /\ pc' = "returned"
    /\ ncalls' = ncalls + 1
    /\ UNCHANGED <<argv, args, files, fetched, dataset, phenotypes, cv,
                   trainer, call, splitterCalls, CLASSIFIER_GRID>>

NextFC == CallExtractFunctionalConnectivity

SpecFC == InitFC /\ [][NextFC]_vars

\* the arguments of a direct call of create_splitter
SplitterArgs ==
    [split : {"skf", "lpgo", Bogus}, num_folds : 0 .. MaxCount,
     num_cv_repeats : 0 .. MaxCount,
     random_state : {None} \cup {Some(seed) : seed \in 0 .. 1},
     verbose : {0}]

InitSplit ==
    /\ InitSession
    /\ pc = "idle"
    /\ call = Unset
    /\ dataset = Unset

\* cv = create_splitter(**a), for any arguments a
CallCreateSplitter ==
    /\ pc \in {"idle", "returned"}
    /\ ncalls < MaxCalls
    /\ \E a \in SplitterArgs :
          LET r == create_splitter(a)
          IN  /\ call' = a
              /\ cv' = r.splitter
              /\ err' = r.error
              /\ splitterCalls' = splitterCalls \cup
                    {[args |-> a, error |-> r.error, splitter |-> r.splitter]}
    /\ pc' = "returned"
    /\ ncalls' = ncalls + 1
    /\ UNCHANGED <<argv, args, files, fetched, dataset, phenotypes, x,
                   trainer, CLASSIFIER_GRID>>

NextSplit == CallCreateSplitter

SpecSplit == InitSplit /\ [][NextSplit]_vars

\* the scoring arguments of a direct call of create_trainer
Scorings ==
    {ScoringNone, ScoringStr("accuracy"), ScoringStr(Bogus),
     ScoringList(<< >>)}
    \cup {ScoringList(names) : names \in SeqsUpTo({"accuracy", "f1"}, 2)}

\* the arguments of a direct call of create_trainer
TrainerArgs ==
    [classifier : {"logistic", "svm", "ridge", Bogus}, mida : BOOLEAN,
     search_strategy : {"grid", "random", Bogus},
     cv : {LeavePGroupsOut(1).splitter}, scoring : Scorings,
     num_solver_iterations : {0, 100},
     num_search_iterations : 0 .. MaxCount,
     num_jobs : {None}, random_state : {None}, verbose : {0}]

InitTrainer ==
    /\ InitSession
    /\ pc = "idle"
    /\ call = Unset
    /\ dataset = Unset

\* trainer = create_trainer(**a), for any arguments a
CallCreateTrainer ==
    /\ pc \in {"idle", "returned"}
    /\ ncalls < MaxCalls
    /\ \E a \in TrainerArgs :
          LET r == create_trainer(a, CLASSIFIER_GRID)
          IN  /\ call' = a
              /\ trainer' = r.trainer
              /\ err' = r.error
              /\ CLASSIFIER_GRID' = r.grid
    /\ pc' = "returned"
    /\ ncalls' = ncalls + 1
    /\ UNCHANGED <<argv, args, files, fetched, dataset, phenotypes, x, cv,
                   splitterCalls>>

NextTrainer == CallCreateTrainer

SpecTrainer == InitTrainer /\ [][NextTrainer]_vars

(***************************************************************************)
(* Properties of the command line validation (Spec).                       *)
(***************************************************************************)
\* an argument of a flag with choices is not one of the choices
OutOfChoices(av) ==
    \E f \in DOMAIN av \cap (ChoiceFlags \cup ListFlags) :
       \E i \in 1 .. Len(av[f]) : av[f][i] \notin Choices(f)

\* the argument of an integer flag is not an integer
WrongType(av) == \E f \in DOMAIN av \cap IntFlags : av[f][1] = Bogus

CountFlags == {"num-folds", "num-cv-repeats", "num-search-iterations",
               "num-solver-iterations"}

\* the argument of a count flag is an integer, but not a positive one
OutOfRange(av) ==
    \E f \in DOMAIN av \cap CountFlags :
       av[f][1] # Bogus /\ PyInt(av[f][1]) < 1

\* C1 as stated: no run whose command line has an out-of-choices value, a
\* value of the wrong type or an out-of-range count reaches the fetch step
C1_NoInvalidValueReachesFetch ==
    (OutOfChoices(argv) \/ WrongType(argv) \/ OutOfRange(argv)) => ~fetched

\* C1 amended: a run whose command line has an out-of-choices value or a
\* value of the wrong type ends in argparse's error before the fetch and
\* before any file is written; argparse rejects nothing else of a complete
\* command line, so an out-of-range count passes the parser and the run
\* goes on to the fetch; every error other than argparse's is raised after
\* the fetch
C1_ChoicesAndTypesFailFast ==
    /\ (OutOfChoices(argv) \/ WrongType(argv)) =>
          /\ ~fetched
          /\ files = {}
          /\ pc \in {"parse", "exit"}
          /\ pc = "exit" => err = "SystemExit"
    /\ err = "SystemExit" =>
          \/ OutOfChoices(argv)
          \/ WrongType(argv)
          \/ ~(RequiredFlags \subseteq DOMAIN argv)
    /\ (OutOfRange(argv) /\ pc \notin {"parse", "write_args", "fetch"}
          /\ err # "SystemExit") => fetched
    /\ err \notin {"", "SystemExit"} => fetched

\* C1 witness: a run with a bad choice and a non-integer count has been
\* stopped by argparse
C1_Witness ==
    /\ pc = "exit"
    /\ err = "SystemExit"
    /\ RequiredFlags \subseteq DOMAIN argv
    /\ OutOfChoices(argv)
    /\ WrongType(argv)

\* the classifier, the search strategy or the split is not one of its choices
UnknownFactoryChoice(av) ==
    \/ "classifier" \in DOMAIN av
          /\ av["classifier"][1] \notin {"ridge", "svm", "logistic"}
    \/ "search-strategy" \in DOMAIN av
          /\ av["search-strategy"][1] \notin {"grid", "random"}
    \/ "split" \in DOMAIN av /\ av["split"][1] \notin {"skf", "lpgo"}

\* C2: a run whose --classifier, --search-strategy or --split is not one of
\* the enumerated choices ends in a configuration error before any data is
\* fetched and before any output file is written
C2_UnknownChoiceRaisesBeforeFetch ==
    UnknownFactoryChoice(argv) =>
        /\ ~fetched
        /\ files = {}
        /\ dataset = Unset
        /\ pc \in {"parse", "exit"}
        /\ pc = "exit" => err = "SystemExit"

\* C2 witness: a complete command line with an unknown split has been
\* rejected
C2_Witness ==
    /\ pc = "exit"
    /\ err = "SystemExit"
    /\ RequiredFlags \subseteq DOMAIN argv
    /\ "split" \in DOMAIN argv
    /\ argv["split"][1] = Bogus
    /\ DOMAIN argv \cap IntFlags = {}

(***************************************************************************)
(* Properties of extract_functional_connectivity (SpecFC).                 *)
(***************************************************************************)
KnownMeasures == {"pearson", "partial", "tangent", "covariance", "precision"}

AllKnown(measures) ==
    \A i \in 1 .. Len(measures) : measures[i] \in KnownMeasures

\* C3 as stated: the i-th stage applied is the i-th measure of the list
C3_StagesInListOrder ==
    pc = "returned" =>
        \A i \in 1 .. Len(x.stages) : x.stages[i].name = call.measures[i]

\* C3 amended: the measures are applied in the reverse of the list's order:
\* for a list of k >= 1 measures the i-th stage applied is the (k+1-i)-th
\* measure of the list, so the last listed measure is the one applied to
\* the raw time series and the first listed measure is the final
\* (vectorizing) pass
C3_StagesInReverseListOrder ==
    pc = "returned" =>
        LET k == Len(call.measures)
        IN  /\ \A i \in 1 .. Len(x.stages) :
                  x.stages[i].name = call.measures[k + 1 - i]
            /\ (k >= 1 /\ AllKnown(call.measures)) =>
                  /\ Len(x.stages) = k
                  /\ x.stages[1].name = call.measures[k]
                  /\ x.stages[1].input = TimeSeries(dataset.rois.rois)
                  /\ x.stages[k].name = call.measures[1]
                  /\ x.stages[k].measure.vectorize
                  /\ x.stages[k].output = x.data

\* C3 witness: a list of three known measures whose first and last differ
\* has been applied
C3_Witness ==
    /\ pc = "returned"
    /\ err = ""
    /\ Len(call.measures) = 3
    /\ call.measures[1] # call.measures[3]
    /\ Len(x.stages) = 3

\* C4: the stages form a chain, the output of each being the input of the
\* next; only the last stage executed is built with vectorize and
\* discard_diagonal set, every earlier one with both unset and giving full
\* matrices; the result has n*(n-1)/2 features for n regions
C4_ChainOnlyLastVectorizes ==
    pc = "returned" =>
        LET k == Len(call.measures)
            n == dataset.rois.rois
        IN  /\ \A i \in 1 .. Len(x.stages) :
                  /\ x.stages[i].measure.vectorize = (i = k)
                  /\ x.stages[i].measure.discard_diagonal = (i = k)
            /\ (k >= 1 /\ AllKnown(call.measures)) =>
                  /\ err = ""
                  /\ Len(x.stages) = k
                  /\ x.stages[1].input = TimeSeries(n)
                  /\ \A i \in 1 .. k - 1 :
                        /\ x.stages[i].output = Matrix(n)
                        /\ x.stages[i + 1].input = x.stages[i].output
                  /\ x.data = x.stages[k].output
                  /\ x.data = Vector(n, (n * (n - 1)) \div 2)

\* C4 witness: a chain of two stages on three regions has given vectors of
\* three features
C4_Witness ==
    /\ pc = "returned"
    /\ err = ""
    /\ Len(x.stages) = 2
    /\ x.stages[1].output.shape = "matrix"
    /\ dataset.rois.rois = 3
    /\ x.data.shape = "vector"
    /\ x.data.features = 3

\* the position, in the order of application, of the first name that is
\* not a key of the table: counted from the end of the list
FirstUnknownStage(measures) ==
    CHOOSE j \in 1 .. Len(measures) :
        /\ measures[Len(measures) + 1 - j] \notin KnownMeasures
        /\ \A i \in 1 .. j - 1 :
              measures[Len(measures) + 1 - i] \in KnownMeasures

\* C5 as stated: a list with a name that is not a key of the table fails at
\* the lookup of that name, and no estimator is constructed or applied with
\* an unresolved kind
C5_UnknownNameFailsAtLookup ==
    (pc = "returned" /\ ~AllKnown(call.measures)) =>
        /\ err = "KeyError"
        /\ \A i \in 1 .. Len(x.stages) : x.stages[i].measure.kind # None

\* C5 amended: the lookup of a name that is not a key of the table raises
\* nothing and yields None; for every list containing such a name an
\* estimator is constructed with kind None and applied, after the stages of
\* the names listed behind it, and the call fails in that estimator's
\* fit_transform, not at the lookup
C5_UnknownNameReachesEstimator ==
    (pc = "returned" /\ ~AllKnown(call.measures)) =>
        LET j == FirstUnknownStage(call.measures)
        IN  /\ err = "ValueError"
            /\ Len(x.stages) = j
            /\ x.stages[j].measure.kind = None
            /\ x.stages[j].error = "ValueError"
            /\ \A i \in 1 .. j - 1 :
                  /\ x.stages[i].measure.kind # None
                  /\ x.stages[i].error = ""

\* C5 witness: a list whose first name is unknown has failed in the third
\* estimator, after two stages have been applied
C5_Witness ==
    /\ pc = "returned"
    /\ Len(call.measures) = 3
    /\ call.measures[1] = Bogus
    /\ Len(x.stages) = 3
    /\ x.stages[3].measure.kind = None
    /\ err = "ValueError"

(***************************************************************************)
(* Properties of process_phenotypic_data (SpecPheno).                      *)
(***************************************************************************)
CategoricalColumns ==
    {"SEX", "HANDEDNESS_CATEGORY", "EYE_STATUS_AT_SCAN", "DX_GROUP"}

CanonicalLabels(c) ==
    CASE c = "SEX" -> {"MALE", "FEMALE"}
      [] c = "HANDEDNESS_CATEGORY" -> {"LEFT", "RIGHT", "AMBIDEXTROUS"}
      [] c = "EYE_STATUS_AT_SCAN" -> {"OPEN", "CLOSED"}
      [] c = "DX_GROUP" -> {"CONTROL", "ASD"}

\* the raw values the column's lookup table has a key for
LookupKeys(c) ==
    IF c = "HANDEDNESS_CATEGORY"
    THEN {"L", "R", "Mixed", "Ambi", "L->R", "R->L", "-9999", NaNStr}
    ELSE {1, 2}

\* C6 as stated: every raw value of a categorical column, also one that is
\* not a key of the lookup table, is recoded to a canonical label, and an
\* unrecognized or missing handedness becomes LEFT
C6_OnlyCanonicalLabels ==
    pc = "returned" =>
        \A i \in 1 .. Len(phenotypes) :
            /\ \A c \in CategoricalColumns :
                  phenotypes[i][c] \in CanonicalLabels(c)
            /\ call.data[i]["HANDEDNESS_CATEGORY"]
                  \notin {"L", "R", "Mixed", "Ambi", "L->R", "R->L"}
                  => phenotypes[i]["HANDEDNESS_CATEGORY"] = "LEFT"

\* C6 amended: every raw value that is a key of the column's lookup table
\* is recoded to one of the column's canonical labels; a raw value that is
\* not a key becomes a missing value, not a label; a missing handedness
\* (NaN or the "-9999" marker) becomes LEFT, an unrecognized handedness
\* becomes a missing value
C6_KeysRecodedOthersMissing ==
    pc = "returned" =>
        /\ Len(phenotypes) = Len(call.data)
        /\ \A i \in 1 .. Len(phenotypes) :
              /\ \A c \in CategoricalColumns :
                    IF call.data[i][c] \in LookupKeys(c)
                    THEN phenotypes[i][c] \in CanonicalLabels(c)
                    ELSE phenotypes[i][c] = NaNStr
              /\ call.data[i]["HANDEDNESS_CATEGORY"] \in {NaNStr, "-9999"}
                    => phenotypes[i]["HANDEDNESS_CATEGORY"] = "LEFT"

\* C6 witness: a row with an unrecognized handedness and an unrecognized
\* sex code has been processed, and both cells are missing
C6_Witness ==
    /\ pc = "returned"
    /\ Len(phenotypes) >= 1
    /\ call.data[1]["HANDEDNESS_CATEGORY"] = Bogus
    /\ call.data[1]["SEX"] = Missing
    /\ phenotypes[1]["HANDEDNESS_CATEGORY"] = NaNStr
    /\ phenotypes[1]["SEX"] = NaNStr

\* C7: the output FIQ is exactly 100 where the input is -9999 or missing
\* and the input value everywhere else, and the caller's table is not
\* modified
C7_FIQImputed ==
    pc = "returned" =>
        /\ Len(phenotypes) = Len(call.data)
        /\ \A i \in 1 .. Len(phenotypes) :
              LET raw == call.data[i]["FIQ"]
              IN  IF raw.nan \/ raw.v = -9999
                  THEN phenotypes[i]["FIQ"] = Num(100)
                  ELSE phenotypes[i]["FIQ"] = raw
        /\ dataset.phenotypic = call.data

\* C7 witness: a row with a missing FIQ has been processed
C7_Witness ==
    /\ pc = "returned"
    /\ Len(phenotypes) >= 1
    /\ call.data[1]["FIQ"] = NaN
    /\ phenotypes[1]["FIQ"] = Num(100)

\* C8: L maps to LEFT, R to RIGHT, each of Mixed, Ambi, L->R and R->L to
\* AMBIDEXTROUS, and a missing value (NaN or the -9999 marker) to LEFT
C8_HandednessTargets ==
    pc = "returned" =>
        \A i \in 1 .. Len(phenotypes) :
            LET raw == call.data[i]["HANDEDNESS_CATEGORY"]
                out == phenotypes[i]["HANDEDNESS_CATEGORY"]
            IN  /\ raw \in {"L", "-9999", NaNStr} => out = "LEFT"
                /\ raw = "R" => out = "RIGHT"
                /\ raw \in {"Mixed", "Ambi", "L->R", "R->L"}
                      => out = "AMBIDEXTROUS"
                /\ raw # Bogus => out \in {"LEFT", "RIGHT", "AMBIDEXTROUS"}

\* C8 witness: a row of a subject who switched from left to right has been
\* processed
C8_Witness ==
    /\ pc = "returned"
    /\ Len(phenotypes) >= 1
    /\ call.data[1]["HANDEDNESS_CATEGORY"] = "L->R"
    /\ phenotypes[1]["HANDEDNESS_CATEGORY"] = "AMBIDEXTROUS"

(***************************************************************************)
(* Properties of create_splitter (SpecSplit).                              *)
(***************************************************************************)
\* site labels to compare the partitions of two splitters on
Sites == {"NYU", "KKI", "UCLA"}

\* C9: two calls with split="lpgo" and the same num_folds return
\* identically configured leave-p-groups-out splitters (test-group count =
\* num_folds), whatever their random_state and num_cv_repeats, and so give
\* the same partitions of fixed group labels; with split="skf" the seed is
\* passed to the repeated-stratified k-fold splitter
C9_LpgoIgnoresSeed ==
    /\ \A a \in splitterCalls : \A b \in splitterCalls :
          (/\ a.args.split = "lpgo"
           /\ b.args.split = "lpgo"
           /\ a.args.num_folds = b.args.num_folds) =>
              /\ a.error = ""
              /\ a.splitter = b.splitter
              /\ a.splitter.type = "LeavePGroupsOut"
              /\ a.splitter.n_groups = a.args.num_folds
              /\ LeavePGroupsOutSplits(a.splitter, Sites)
                    = LeavePGroupsOutSplits(b.splitter, Sites)
    /\ \A a \in splitterCalls :
          (a.args.split = "skf" /\ a.error = "") =>
              /\ a.splitter.type = "RepeatedStratifiedKFold"
              /\ a.splitter.random_state = a.args.random_state
              /\ a.splitter.n_splits = a.args.num_folds
              /\ a.splitter.n_repeats = a.args.num_cv_repeats

\* C9 witness: two lpgo calls that differ in the seed and in the repeat
\* count have returned the same splitter
C9_Witness ==
    \E a \in splitterCalls : \E b \in splitterCalls :
        /\ a.args.split = "lpgo"
        /\ b.args.split = "lpgo"
        /\ a.args.num_folds = b.args.num_folds
        /\ a.args.random_state # b.args.random_state
        /\ a.args.num_cv_repeats # b.args.num_cv_repeats
        /\ a.splitter = b.splitter

(***************************************************************************)
(* Properties of create_trainer (SpecTrainer).                             *)
(***************************************************************************)
DomainAdaptationKeys ==
    {"domain_adapter__num_components", "domain_adapter__kernel",
     "domain_adapter__mu", "domain_adapter__eta",
     "domain_adapter__ignore_y", "domain_adapter__augment"}

ClassifierKeys(c) == IF c = "ridge" THEN {"alpha"} ELSE {"C"}

\* C10: with mida the grid is the classifier's grid and exactly the six
\* domain-adaptation keys and a MIDATrainer is returned for either
\* strategy; without mida the grid has no domain-adaptation key and the
\* trainer is a GridSearchCV for grid and a RandomizedSearchCV with
\* n_iter = num_search_iterations for random
C10_TrainerVariantAndGrid ==
    (pc = "returned" /\ err = "") =>
        LET keys == DOMAIN trainer.args.param_grid
        IN  /\ call.classifier \in {"logistic", "svm", "ridge"}
            /\ IF call.mida THEN
                   /\ trainer.type = "MIDATrainer"
                   /\ keys = ClassifierKeys(call.classifier)
                                \cup DomainAdaptationKeys
                   /\ Cardinality(keys) = 7
               ELSE
                   /\ keys \cap DomainAdaptationKeys = {}
                   /\ keys = ClassifierKeys(call.classifier)
                   /\ call.search_strategy = "grid"
                         => trainer.type = "GridSearchCV"
                   /\ call.search_strategy = "random"
                         => /\ trainer.type = "RandomizedSearchCV"
                            /\ trainer.n_iter = call.num_search_iterations

\* C10 witness: the second call of a session has returned a randomized
\* search without domain adaptation
C10_Witness ==
    /\ pc = "returned"
    /\ err = ""
    /\ ncalls = 2
    /\ ~call.mida
    /\ trainer.type = "RandomizedSearchCV"

\* the arguments of a call that pass validate_params
ValidTrainerCall(a) ==
    /\ a.classifier \in {"logistic", "svm", "ridge"}
    /\ a.search_strategy \in {"grid", "random"}
    /\ a.scoring.kind = "str" => a.scoring.names[1] \in ScorerNames
    /\ a.num_solver_iterations >= 1
    /\ a.num_search_iterations >= 1

\* C11: a call of create_trainer with valid arguments and a scoring that
\* is not an empty list returns a trainer; the trainer's scoring is the
\* scoring argument as given, all entries of a list included; its refit is
\* the first entry of the list when scoring is a list, and the scoring
\* value itself when scoring is one name or None
C11_RefitIsFirstScoringEntry ==
    (pc = "returned" /\ ValidTrainerCall(call)) =>
        LET scoring == call.scoring
        IN  /\ (scoring.kind = "list" /\ Len(scoring.names) >= 1)
                  => /\ err = ""
                     /\ trainer.args.scoring = scoring
                     /\ trainer.args.scoring.names = scoring.names
                     /\ trainer.args.refit.kind = "str"
                     /\ trainer.args.refit.names = <<scoring.names[1]>>
            /\ scoring.kind \in {"str", "none"}
                  => /\ err = ""
                     /\ trainer.args.scoring = scoring
                     /\ trainer.args.refit = scoring

\* C11 witness: a call with a list of two different metrics has returned
\* a trainer, so the first entry and the last one differ
C11_Witness ==
    /\ pc = "returned"
    /\ err = ""
    /\ call.scoring.kind = "list"
    /\ Len(call.scoring.names) = 2
    /\ call.scoring.names[1] # call.scoring.names[2]
    /\ trainer.args.refit.names = <<call.scoring.names[1]>>

(***************************************************************************)
(* Properties of the fit and of the output files of a run (Spec).          *)
(***************************************************************************)
InputFiles == {"args.yaml", "phenotypes.csv", "inputs.npz"}

ResultFiles == {"cv_results.csv", "model.joblib"}

\* C12: every trainer of a run is configured to raise on a failed
\* evaluation; a run whose fit raised has ended with args.yaml,
\* phenotypes.csv and inputs.npz written and neither cv_results.csv nor
\* model.joblib; those three files are exactly the files present when fit
\* starts; cv_results.csv exists only after fit has returned with no failed
\* evaluation scored, and model.joblib only after cv_results.csv
C12_FitFailureIsFatal ==
    /\ trainer # Unset => trainer.args.error_score = "raise"
    /\ err = "FitError"
          => /\ pc = "exit"
             /\ ~trainer.args.fitted
             /\ files = InputFiles
    /\ pc = "fit" => files = InputFiles /\ ~trainer.args.fitted
    /\ files \cap ResultFiles # {}
          => /\ InputFiles \subseteq files
             /\ "cv_results.csv" \in files
             /\ err = ""
             /\ pc \in {"dump_model", "done"}
             /\ trainer.args.fitted
             /\ ~trainer.args.scored_failure
    /\ "model.joblib" \in files <=> pc = "done"
    /\ pc = "write_results"
          => /\ files = InputFiles
             /\ trainer.args.fitted
             /\ ~trainer.args.scored_failure

\* C12 witness: the evaluation of a candidate failed in a fit whose
\* splitter was usable, and the run has ended with the three input files
C12_Witness ==
    /\ pc = "exit"
    /\ err = "FitError"
    /\ SplitterUsable(trainer.args.cv)
    /\ files = InputFiles
    /\ trainer.args.error_score = "raise"

====
